---- MODULE Spec2Model ----
(***************************************************************************)
(* Payment-channel network simulation (src/network.py): the Node/Channel   *)
(* entity model, the fee-aware backward shortest-path search, the hop by   *)
(* hop payment execution and the TransactionManager's sequential and       *)
(* concurrent runs.                                                        *)
(*                                                                         *)
(* Node ids are the one-character strings "1", "2", "3", written 1, 2, 3:  *)
(* Python's string order on them (sorted, min, max, heap tie-break) is the *)
(* integer order.  A fee rate is the float p/q, written <<p, q>>; the      *)
(* rates used (0, 1/2, 1/100) multiply the amounts of the model exactly in *)
(* IEEE double arithmetic, so int(amount * fee_rate) is the truncated      *)
(* quotient computed by Trunc.                                             *)
(***************************************************************************)
EXTENDS Integers, Sequences, FiniteSets, TLC

VARIABLES
    nodes,              \* Network.nodes: the set of node ids (keys of the dict)
    node_channels,      \* Node.channels of each node: keys in insertion order
    channels,           \* Network.channels: channel id -> Channel fields
    transaction_queue,  \* TransactionManager.transaction_queue
    log,                \* TransactionManager.log
    last,               \* observer: the most recent API call and what it returned or raised
    forwarded,          \* observer: per channel, the fees of the hops whose update_balances moved value
    calls,              \* observer: number of execute_payment calls made so far
    run,                \* simulate(concurrent=True) in progress: its threads and their locals
    ran                 \* observer: per entry of transaction_queue, <<the simulate calls made
                        \* while it was queued, those whose process_tx on it returned>>

vars ==
    <<nodes, node_channels, channels, transaction_queue, log, last, forwarded, calls, run, ran>>

(***************************************************************************)
(* Bounds and input sets                                                   *)
(***************************************************************************)
MaxChannels == 3
MaxCalls == 2
MaxQueue == 2

\* The largest magnitude an int may have in amount * fee_rate: beyond it the
\* conversion to float raises OverflowError.  It stands for the largest
\* double (about 1.8 * 10^308), scaled down; no balance and no amount of
\* the model comes near it, only the labels of a search that never settles.
FloatMax == 1000000

NodeIds == {1, 2, 3}

\* <<capacity, balance_a, balance_b, base_fee, fee_rate>> offered to add_channel;
\* the third one violates balance_a + balance_b = capacity.
ChannelParams ==
    { <<4, 2, 2, 0, <<0, 1>>>>,
      <<4, 3, 1, 1, <<1, 2>>>>,
      <<4, 1, 2, 0, <<0, 1>>>> }

\* <<from, to, amount>> offered to execute_payment.  With an amount of at
\* least -1 and a rate below 1 every fee is non-negative.
PaymentInputs ==
    ({<<1, 3>>, <<3, 1>>, <<1, 2>>} \X {1, 2}) \cup {<<<<2, 1>>, -1>>, <<<<2, 2>>, 1>>}

\* <<from, to, amount>> offered to find_path alone
FindInputs == {<<1, 3>>, <<3, 1>>, <<2, 2>>} \X {2, 0, -1, -4}

\* <<from, to, amount>> offered to add_transaction
QueueInputs == {<<1, 3, 2>>, <<3, 1, 1>>, <<2, 1, -1>>, <<2, 2, 1>>}

\* The end-to-end scenario's inputs (nodes A, B, C are 1, 2, 3).
ScenarioParams ==
    { <<1000, 500, 500, 0, <<0, 1>>>>,
      <<1000, 500, 500, 10, <<1, 100>>>> }

ScenarioInputs == {<<1, 3>>, <<3, 1>>, <<1, 2>>} \X {100, 600}

None == 0

(***************************************************************************)
(* Entity model: Channel                                                   *)
(***************************************************************************)
Min(x, y) == IF x <= y THEN x ELSE y

Max(x, y) == IF x <= y THEN y ELSE x

\* f"{sorted_ids[0]}-{sorted_ids[1]}" and f"{min(s, r)}-{max(s, r)}"
ChannelId(x, y) == <<Min(x, y), Max(x, y)>>

\* int(x) of the float n/d: truncation toward zero
Trunc(n, d) == IF n >= 0 THEN n \div d ELSE -((-n) \div d)

Channel(node_a, node_b, capacity, balance_a, balance_b, base_fee, fee_rate) ==
    [node_a |-> node_a, node_b |-> node_b, capacity |-> capacity,
     balance_a |-> balance_a, balance_b |-> balance_b,
     base_fee |-> base_fee, fee_rate |-> fee_rate, fee_earned |-> 0]

get_other_node(channel, node) ==
    IF node = channel.node_a THEN channel.node_b
    ELSE IF node = channel.node_b THEN channel.node_a
    ELSE "ValueError: Node not part of this channel"

\* amount * self.fee_rate raises OverflowError: int too large to convert to float
overflows(amount) == amount > FloatMax \/ amount < -FloatMax

\* the base fee left out
calculate_fee_rate_only(channel, amount) ==
    Trunc(amount * channel.fee_rate[1], channel.fee_rate[2])

calculate_fee(channel, amount) ==
    channel.base_fee + Trunc(amount * channel.fee_rate[1], channel.fee_rate[2])

can_forward(channel, from_node, amount) ==
    IF from_node = channel.node_a THEN channel.balance_a >= amount
    ELSE IF from_node = channel.node_b THEN channel.balance_b >= amount
    ELSE "ValueError: Node not part of this channel"

\* the sending side debited, the other side not credited
update_balances_onesided(channel, from_node, amount) ==
    IF from_node = channel.node_a
    THEN IF channel.balance_a < amount
         THEN channel
         ELSE [channel EXCEPT !.balance_a = @ - amount]
    ELSE IF channel.balance_b < amount
         THEN channel
         ELSE [channel EXCEPT !.balance_b = @ - amount]

update_balances(channel, from_node, amount) ==
    IF from_node = channel.node_a
    THEN IF channel.balance_a < amount
         THEN channel
         ELSE [channel EXCEPT !.balance_a = @ - amount, !.balance_b = @ + amount]
    ELSE IF from_node = channel.node_b
    THEN IF channel.balance_b < amount
         THEN channel
         ELSE [channel EXCEPT !.balance_b = @ - amount, !.balance_a = @ + amount]
    ELSE "ValueError: Node not part of this channel"

(***************************************************************************)
(* Entity model: Node                                                      *)
(***************************************************************************)
\* list(self.channels.keys()) as a set
Keys(entries) == {entries[i].other : i \in 1..Len(entries)}

\* Node.add_channel on node `self`, given every node's adjacency `nc`
node_add_channel(nc, self, channel_id, channel) ==
    IF channel.node_a # self /\ channel.node_b # self
    THEN [node_channels |-> nc, error |-> "Channel does not connect to this node"]
    ELSE LET other_id == get_other_node(channel, self)
         IN  IF other_id \in Keys(nc[self])
             THEN [node_channels |-> nc, error |-> "Channel to this node already exists."]
             ELSE [node_channels |->
                       [nc EXCEPT ![self] = Append(@, [other |-> other_id, channel |-> channel_id])],
                   error |-> ""]

(***************************************************************************)
(* Network construction                                                    *)
(***************************************************************************)
\* the duplicate-channel check left out: an existing channel is overwritten
network_add_channel_overwrite(node_a_id, node_b_id, capacity, balance_a, balance_b, base_fee, fee_rate) ==
    LET channel_id == ChannelId(node_a_id, node_b_id)
    IN  IF node_a_id \notin nodes \/ node_b_id \notin nodes
        THEN [channels |-> channels, node_channels |-> node_channels,
              error |-> "Both nodes must exist in the network"]
        ELSE IF balance_a + balance_b # capacity
        THEN [channels |-> channels, node_channels |-> node_channels,
              error |-> "Sum of balances must equal capacity"]
        ELSE LET channel == Channel(node_a_id, node_b_id, capacity, balance_a, balance_b,
                                    base_fee, fee_rate)
                 registered == [c \in DOMAIN channels \cup {channel_id} |->
                                   IF c = channel_id THEN channel ELSE channels[c]]
                 at_a == node_add_channel(node_channels, node_a_id, channel_id, channel)
                 at_b == node_add_channel(at_a.node_channels, node_b_id, channel_id, channel)
             IN  IF at_a.error # ""
                 THEN [channels |-> registered, node_channels |-> at_a.node_channels,
                       error |-> at_a.error]
                 ELSE [channels |-> registered, node_channels |-> at_b.node_channels,
                       error |-> at_b.error]

network_add_channel(node_a_id, node_b_id, capacity, balance_a, balance_b, base_fee, fee_rate) ==
    LET channel_id == ChannelId(node_a_id, node_b_id)
    IN  IF node_a_id \notin nodes \/ node_b_id \notin nodes
        THEN [channels |-> channels, node_channels |-> node_channels,
              error |-> "Both nodes must exist in the network"]
        ELSE IF channel_id \in DOMAIN channels
        THEN [channels |-> channels, node_channels |-> node_channels,
              error |-> "Channel already exists between these nodes"]
        ELSE IF balance_a + balance_b # capacity
        THEN [channels |-> channels, node_channels |-> node_channels,
              error |-> "Sum of balances must equal capacity"]
        ELSE LET channel == Channel(node_a_id, node_b_id, capacity, balance_a, balance_b,
                                    base_fee, fee_rate)
                 registered == channels @@ (channel_id :> channel)
                 at_a == node_add_channel(node_channels, node_a_id, channel_id, channel)
                 at_b == node_add_channel(at_a.node_channels, node_b_id, channel_id, channel)
             IN  IF at_a.error # ""
                 THEN [channels |-> registered, node_channels |-> at_a.node_channels,
                       error |-> at_a.error]
                 ELSE [channels |-> registered, node_channels |-> at_b.node_channels,
                       error |-> at_b.error]

(***************************************************************************)
(* Routing: find_path                                                      *)
(***************************************************************************)
\* heapq.heappop: the least (dist, node id) tuple.  Every pushed tuple is new
\* (a push lowers dist[v] strictly), so the heap is a set of tuples.
heap_min(pq) ==
    CHOOSE e \in pq : \A f \in pq : e[1] < f[1] \/ (e[1] = f[1] /\ e[2] <= f[2])

\* a node that already has a label keeps it
RECURSIVE relax_first_label(_, _, _, _)
relax_first_label(chans, u, i, st) ==
    IF i > Len(node_channels[u]) THEN st
    ELSE LET v == node_channels[u][i].other
             channel == chans[node_channels[u][i].channel]
             forward_amount == st.dist[u]
         IN  IF can_forward(channel, v, forward_amount)
             THEN IF overflows(forward_amount)
                  THEN [st EXCEPT !.raised = TRUE]
                  ELSE
                  LET fee == calculate_fee(channel, forward_amount)
                      new_dist == st.dist[u] + fee
                  IN  IF v \notin DOMAIN st.dist
                      THEN relax_first_label(chans, u, i + 1,
                                 [dist |-> [x \in DOMAIN st.dist \cup {v} |->
                                               IF x = v THEN new_dist ELSE st.dist[x]],
                                  pred |-> [st.pred EXCEPT ![v] = u],
                                  pq |-> st.pq \cup {<<new_dist, v>>},
                                  raised |-> st.raised])
                      ELSE relax_first_label(chans, u, i + 1, st)
             ELSE relax_first_label(chans, u, i + 1, st)

\* dist[x] = INF is x \notin DOMAIN dist; raised: calculate_fee raised
\* OverflowError, which ends find_path
RECURSIVE relax(_, _, _, _)
relax(chans, u, i, st) ==
    IF i > Len(node_channels[u]) THEN st
    ELSE LET v == node_channels[u][i].other
             channel == chans[node_channels[u][i].channel]
             forward_amount == st.dist[u]
         IN  IF can_forward(channel, v, forward_amount)
             THEN IF overflows(forward_amount)
                  THEN [st EXCEPT !.raised = TRUE]
                  ELSE
                  LET fee == calculate_fee(channel, forward_amount)
                      new_dist == st.dist[u] + fee
                  IN  IF v \notin DOMAIN st.dist \/ new_dist < st.dist[v]
                      THEN relax(chans, u, i + 1,
                                 [dist |-> [x \in DOMAIN st.dist \cup {v} |->
                                               IF x = v THEN new_dist ELSE st.dist[x]],
                                  pred |-> [st.pred EXCEPT ![v] = u],
                                  pq |-> st.pq \cup {<<new_dist, v>>},
                                  raised |-> st.raised])
                      ELSE relax(chans, u, i + 1, st)
             ELSE relax(chans, u, i + 1, st)

RECURSIVE search(_, _)
search(chans, st) ==
    IF st.raised \/ st.pq = {} THEN st
    ELSE LET top == heap_min(st.pq)
             cur_dist == top[1]
             u == top[2]
             popped == [st EXCEPT !.pq = st.pq \ {top}]
         IN  IF cur_dist > st.dist[u]
             THEN search(chans, popped)
             ELSE search(chans, relax(chans, u, 1, popped))

\* every second predecessor skipped
RECURSIVE reconstruct_skip(_, _)
reconstruct_skip(pred, current) ==
    IF current = None THEN <<>>
    ELSE IF pred[current] = None THEN <<current>>
    ELSE IF pred[pred[current]] = None THEN <<current, pred[current]>>
    ELSE <<current>> \o reconstruct_skip(pred, pred[pred[current]])

\* the forward path: follow pred from `current` until None
RECURSIVE reconstruct(_, _)
reconstruct(pred, current) ==
    IF current = None THEN <<>>
    ELSE <<current>> \o reconstruct(pred, pred[current])

\* find_path after the search loop: st holds dist and pred.  The empty dict {}
\* is the function with empty domain; an exception that left find_path is
\* the record [error |-> its name].
path_result(st, path, from_node_id, to_node_id) ==
    IF path[Len(path)] # to_node_id THEN <<>>
    ELSE [path |-> path, total_cost |-> st.dist[from_node_id]]

searched_path(st, from_node_id, to_node_id) ==
    IF st.raised THEN [error |-> "OverflowError"]
    ELSE IF from_node_id \notin DOMAIN st.dist THEN <<>>
    ELSE path_result(st, reconstruct(st.pred, from_node_id), from_node_id, to_node_id)

find_path(chans, from_node_id, to_node_id, amount) ==
    IF from_node_id \notin nodes \/ to_node_id \notin nodes THEN <<>>
    ELSE searched_path(search(chans, [dist |-> (to_node_id :> amount),
                                      pred |-> [n \in nodes |-> None],
                                      pq |-> {<<amount, to_node_id>>},
                                      raised |-> FALSE]),
                       from_node_id, to_node_id)

(***************************************************************************)
(* Payment execution                                                       *)
(***************************************************************************)
\* a hop whose sending side is short stops the payment as failed, the hops
\* already applied are kept
RECURSIVE hop_loop_abort(_, _, _, _, _)
hop_loop_abort(chans, path, i, current_amount, hops) ==
    IF i < 2 THEN [channels |-> chans, completed |-> TRUE, hops |-> hops]
    ELSE LET sender_id == path[i - 1]
             channel_id == ChannelId(sender_id, path[i])
         IN  IF channel_id \notin DOMAIN chans
             THEN [channels |-> chans, completed |-> FALSE, hops |-> hops]
             ELSE LET channel == chans[channel_id]
                      fee == calculate_fee(channel, current_amount)
                      forward_amount == current_amount + fee
                      updated == update_balances(channel, sender_id, forward_amount)
                      earned == [updated EXCEPT !.fee_earned = @ + fee]
                      hop == [channel |-> channel_id, sender |-> sender_id, fee |-> fee,
                              amount |-> forward_amount, moved |-> TRUE]
                  IN  IF ~can_forward(channel, sender_id, forward_amount)
                      THEN [channels |-> chans, completed |-> FALSE, hops |-> hops]
                      ELSE hop_loop_abort([chans EXCEPT ![channel_id] = earned], path, i - 1,
                                          forward_amount, Append(hops, hop))

\* the fee of a hop not carried to the next hop upstream
RECURSIVE hop_loop_flat(_, _, _, _, _)
hop_loop_flat(chans, path, i, current_amount, hops) ==
    IF i < 2 THEN [channels |-> chans, completed |-> TRUE, hops |-> hops]
    ELSE LET sender_id == path[i - 1]
             channel_id == ChannelId(sender_id, path[i])
         IN  IF channel_id \notin DOMAIN chans
             THEN [channels |-> chans, completed |-> FALSE, hops |-> hops]
             ELSE LET channel == chans[channel_id]
                      fee == calculate_fee(channel, current_amount)
                      forward_amount == current_amount + fee
                      updated == update_balances(channel, sender_id, forward_amount)
                      earned == [updated EXCEPT !.fee_earned = @ + fee]
                      hop == [channel |-> channel_id, sender |-> sender_id, fee |-> fee,
                              amount |-> forward_amount,
                              moved |-> can_forward(channel, sender_id, forward_amount)]
                  IN  hop_loop_flat([chans EXCEPT ![channel_id] = earned], path, i - 1,
                                    current_amount, Append(hops, hop))

\* the fee credited to every channel of the sending node
RECURSIVE hop_loop_node_earns(_, _, _, _, _)
hop_loop_node_earns(chans, path, i, current_amount, hops) ==
    IF i < 2 THEN [channels |-> chans, completed |-> TRUE, hops |-> hops]
    ELSE LET sender_id == path[i - 1]
             channel_id == ChannelId(sender_id, path[i])
         IN  IF channel_id \notin DOMAIN chans
             THEN [channels |-> chans, completed |-> FALSE, hops |-> hops]
             ELSE LET channel == chans[channel_id]
                      fee == calculate_fee(channel, current_amount)
                      forward_amount == current_amount + fee
                      updated == update_balances(channel, sender_id, forward_amount)
                      hop == [channel |-> channel_id, sender |-> sender_id, fee |-> fee,
                              amount |-> forward_amount,
                              moved |-> can_forward(channel, sender_id, forward_amount)]
                      earned == [c \in DOMAIN chans |->
                                    LET ch == IF c = channel_id THEN updated ELSE chans[c]
                                    IN  IF sender_id \in {ch.node_a, ch.node_b}
                                        THEN [ch EXCEPT !.fee_earned = @ + fee]
                                        ELSE ch]
                  IN  hop_loop_node_earns(earned, path, i - 1, forward_amount,
                                          Append(hops, hop))

\* The hop loop, i = len(path) - 1 down to 1 (here path is 1-based: i + 1 down
\* to 2).  hops records, per hop, the channel, the fee and whether
\* update_balances moved value.
RECURSIVE hop_loop(_, _, _, _, _)
hop_loop(chans, path, i, current_amount, hops) ==
    IF i < 2 THEN [channels |-> chans, completed |-> TRUE, hops |-> hops]
    ELSE LET receiver_id == path[i]
             sender_id == path[i - 1]
             channel_id == ChannelId(sender_id, receiver_id)
         IN  IF channel_id \notin DOMAIN chans
             THEN [channels |-> chans, completed |-> FALSE, hops |-> hops]
             ELSE LET channel == chans[channel_id]
                      fee == calculate_fee(channel, current_amount)
                      forward_amount == current_amount + fee
                      updated == update_balances(channel, sender_id, forward_amount)
                      earned == [updated EXCEPT !.fee_earned = @ + fee]
                      hop == [channel |-> channel_id, sender |-> sender_id, fee |-> fee,
                              amount |-> forward_amount,
                              moved |-> can_forward(channel, sender_id, forward_amount)]
                  IN  hop_loop([chans EXCEPT ![channel_id] = earned], path, i - 1,
                               forward_amount, Append(hops, hop))

\* execute_payment after the hop loop
payment_result(path_info, amount, done) ==
    LET total_cost == path_info.total_cost
        total_fees == total_cost - amount
    IN  IF done.completed
        THEN [channels |-> done.channels, ret |-> <<TRUE, total_fees>>,
              path_info |-> path_info, hops |-> done.hops]
        ELSE [channels |-> done.channels, ret |-> <<FALSE, 0>>,
              path_info |-> path_info, hops |-> done.hops]

\* execute_payment after find_path
pay_along(chans, amount, path_info) ==
    IF "error" \in DOMAIN path_info
    THEN [channels |-> chans, ret |-> path_info, path_info |-> path_info, hops |-> <<>>]
    ELSE IF DOMAIN path_info = {}
    THEN [channels |-> chans, ret |-> <<FALSE, 0>>, path_info |-> path_info, hops |-> <<>>]
    ELSE payment_result(path_info, amount,
                        hop_loop(chans, path_info.path, Len(path_info.path), amount, <<>>))

execute_payment(chans, from_node_id, to_node_id, amount) ==
    pay_along(chans, amount, find_path(chans, from_node_id, to_node_id, amount))

\* observer update: add the fees of the hops that moved value
RECURSIVE add_forwarded(_, _, _)
add_forwarded(fwd, hops, i) ==
    IF i > Len(hops) THEN fwd
    ELSE add_forwarded(IF hops[i].moved
                       THEN [fwd EXCEPT ![hops[i].channel] = @ + hops[i].fee]
                       ELSE fwd,
                       hops, i + 1)

(***************************************************************************)
(* TransactionManager                                                      *)
(***************************************************************************)
\* The result strings, by their fields:
\*   "Transaction {from} -> {to} ({amount} sat, total fees: {fees} sat): Success"
\*   "Transaction {from} -> {to} ({amount} sat): Failed"
SuccessLine(from_id, to_id, amount, total_fees) ==
    <<"Success", from_id, to_id, amount, total_fees>>

FailedLine(from_id, to_id, amount) == <<"Failed", from_id, to_id, amount>>

\* st: the channels and the log, with the observers rets and path_infos
\* (what each execute_payment returned and the path it ran on), forwarded
\* and calls; raised is set when an exception has left the loop
\* process_tx after execute_payment returned r
log_result(st, from_id, to_id, amount, r) ==
    LET success == r.ret[1]
        total_fees == r.ret[2]
        result == IF success THEN SuccessLine(from_id, to_id, amount, total_fees)
                  ELSE FailedLine(from_id, to_id, amount)
    IN  [channels |-> r.channels,
         log |-> Append(st.log, result),
         rets |-> Append(st.rets, r.ret),
         path_infos |-> Append(st.path_infos, r.path_info),
         forwarded |-> add_forwarded(st.forwarded, r.hops, 1),
         calls |-> st.calls + 1,
         raised |-> st.raised]

\* process_tx after execute_payment ended with r: an exception leaves
\* process_tx before anything is appended to the log
after_payment(st, tx, r) ==
    IF "error" \in DOMAIN r.path_info THEN [st EXCEPT !.raised = TRUE, !.calls = @ + 1]
    ELSE log_result(st, tx[1], tx[2], tx[3], r)

process_tx(st, tx) ==
    after_payment(st, tx, execute_payment(st.channels, tx[1], tx[2], tx[3]))

\* the loop left at the first failed payment
RECURSIVE run_queue_stop(_, _, _)
run_queue_stop(st, queue, i) ==
    IF i > Len(queue) \/ st.raised THEN st
    ELSE LET after == process_tx(st, queue[i])
         IN  IF after.rets[Len(after.rets)][1]
             THEN run_queue_stop(after, queue, i + 1)
             ELSE after

\* for tx in self.transaction_queue: self.process_tx(*tx); the exception of
\* a process_tx ends the loop
RECURSIVE run_queue(_, _, _)
run_queue(st, queue, i) ==
    IF i > Len(queue) \/ st.raised THEN st
    ELSE run_queue(process_tx(st, queue[i]), queue, i + 1)

(***************************************************************************)
(* Actions                                                                 *)
(***************************************************************************)
\* no simulate(concurrent=True) is in progress
Idle == [pc |-> "idle", threads |-> <<>>, before |-> <<>>, overlapped |-> FALSE]

Init ==
    /\ nodes = {}
    /\ node_channels = <<>>
    /\ channels = <<>>
    /\ transaction_queue = <<>>
    /\ log = <<>>
    /\ last = [op |-> "init"]
    /\ forwarded = <<>>
    /\ calls = 0
    /\ run = Idle
    /\ ran = <<>>

\* The network is built before the run starts (simulation_single.py builds it
\* in createLNetwork before any transaction is queued).
InSetup == calls = 0 /\ transaction_queue = <<>> /\ log = <<>> /\ run.pc = "idle"

\* Network.add_node
AddNode(node_id) ==
    /\ InSetup
    /\ IF node_id \in nodes
       THEN /\ last' = [op |-> "add_node", args |-> <<node_id>>,
                         error |-> "Node already exists"]
            /\ UNCHANGED <<nodes, node_channels, ran>>
       ELSE /\ nodes' = nodes \cup {node_id}
            /\ node_channels' = node_channels @@ (node_id :> <<>>)
            /\ last' = [op |-> "add_node", args |-> <<node_id>>, error |-> ""]
    /\ UNCHANGED <<channels, transaction_queue, log, forwarded, calls, run, ran>>

\* Network.add_channel
AddChannel(node_a_id, node_b_id, p) ==
    /\ InSetup
    /\ Cardinality(DOMAIN channels) < MaxChannels
    /\ \E r \in {network_add_channel(node_a_id, node_b_id, p[1], p[2], p[3], p[4], p[5])} :
           /\ channels' = r.channels
           /\ node_channels' = r.node_channels
           /\ forwarded' = [c \in DOMAIN r.channels |->
                               IF c \in DOMAIN forwarded THEN forwarded[c] ELSE 0]
           /\ last' = [op |-> "add_channel", args |-> <<node_a_id, node_b_id, p>>,
                       error |-> r.error]
    /\ UNCHANGED <<nodes, transaction_queue, log, calls, run, ran>>

\* Network.execute_payment
ExecutePayment(from_node_id, to_node_id, amount) ==
    /\ calls < MaxCalls
    /\ \E r \in {execute_payment(channels, from_node_id, to_node_id, amount)} :
           /\ channels' = r.channels
           /\ forwarded' = add_forwarded(forwarded, r.hops, 1)
           /\ calls' = calls + 1
           /\ last' = [op |-> "execute_payment",
                       args |-> <<from_node_id, to_node_id, amount>>,
                       path_info |-> r.path_info, ret |-> r.ret, hops |-> r.hops]
    /\ UNCHANGED <<nodes, node_channels, transaction_queue, log, run, ran>>

\* TransactionManager.add_transaction
AddTransaction(from_id, to_id, amount) ==
    /\ Len(transaction_queue) < MaxQueue
    /\ calls + Len(transaction_queue) < MaxCalls
    /\ transaction_queue' = Append(transaction_queue, <<from_id, to_id, amount>>)
    /\ last' = [op |-> "add_transaction", args |-> <<from_id, to_id, amount>>]
    /\ ran' = Append(ran, <<0, 0>>)
    /\ UNCHANGED <<nodes, node_channels, channels, log, forwarded, calls, run>>

\* observer update: a simulate call was made on the queue and its
\* process_tx returned for the first n entries
ran_once_more(counts, n) ==
    [i \in DOMAIN counts |->
        <<counts[i][1] + 1, IF i <= n THEN counts[i][2] + 1 ELSE counts[i][2]>>]

\* TransactionManager.simulate(concurrent=False): log.clear(), the loop over
\* the queue, then queue.clear() and the return of the log; an exception of
\* a process_tx leaves simulate before queue.clear().  Every process_tx of
\* the run adds one to calls.
Simulate ==
    /\ run.pc = "idle"
    /\ calls <= MaxCalls
    /\ \E st \in {run_queue([channels |-> channels, log |-> <<>>, rets |-> <<>>,
                               path_infos |-> <<>>,
                               forwarded |-> forwarded, calls |-> calls,
                               raised |-> FALSE],
                              transaction_queue, 1)} :
           /\ channels' = st.channels
           /\ log' = st.log
           /\ forwarded' = st.forwarded
           /\ calls' = st.calls
           /\ last' = [op |-> "simulate", queue |-> transaction_queue,
                       rets |-> st.rets, path_infos |-> st.path_infos,
                       before |-> channels, ran |-> ran, raised |-> st.raised,
                       ret |-> IF st.raised THEN [error |-> "OverflowError"] ELSE st.log]
           /\ transaction_queue' = IF st.raised THEN transaction_queue ELSE <<>>
           /\ ran' = IF st.raised THEN ran_once_more(ran, Len(st.rets)) ELSE <<>>
    /\ UNCHANGED <<nodes, node_channels, run>>

\* find_path called on its own
FindPath(from_node_id, to_node_id, amount) ==
    /\ \E r \in {find_path(channels, from_node_id, to_node_id, amount)} :
           last' = [op |-> "find_path", args |-> <<from_node_id, to_node_id, amount>>,
                    ret |-> r]
    /\ UNCHANGED <<nodes, node_channels, channels, transaction_queue, log, forwarded, calls,
                   run, ran>>

AddNodeStep == \E n \in NodeIds : AddNode(n)

\* add_channel with any pair of ids, equal ids included
AddChannelStep == \E a, b \in NodeIds : \E p \in ChannelParams : AddChannel(a, b, p)

\* add_channel as the driver calls it, between two different nodes
\* (createLNetwork: add_channel(str(i), str(j)) with j > i; a call with equal
\* ids raises, which ends the driver before any payment)
OpenChannelStep ==
    \E a, b \in NodeIds : \E p \in ChannelParams : a # b /\ AddChannel(a, b, p)

ExecutePaymentStep == \E tx \in PaymentInputs : ExecutePayment(tx[1][1], tx[1][2], tx[2])

\* Payments made directly on the network
Next == AddNodeStep \/ OpenChannelStep \/ ExecutePaymentStep

Spec == Init /\ [][Next]_vars

AddTransactionStep == \E tx \in QueueInputs : AddTransaction(tx[1], tx[2], tx[3])

SimulateStep == Simulate

\* Queued transactions run by the sequential simulate
NextSim == AddNodeStep \/ OpenChannelStep \/ AddTransactionStep \/ SimulateStep

SpecSim == Init /\ [][NextSim]_vars

ScenarioChannelStep ==
    \E a, b \in NodeIds : \E p \in ScenarioParams : a # b /\ AddChannel(a, b, p)

ScenarioPaymentStep ==
    \E tx \in ScenarioInputs : ExecutePayment(tx[1][1], tx[1][2], tx[2])

\* The end-to-end scenario's values
NextScenario == AddNodeStep \/ ScenarioChannelStep \/ ScenarioPaymentStep

SpecScenario == Init /\ [][NextScenario]_vars

FindPathStep == \E tx \in FindInputs : FindPath(tx[1][1], tx[1][2], tx[2])

\* Path searches on a network that no payment has changed
NextFind == AddNodeStep \/ OpenChannelStep \/ FindPathStep

SpecFind == Init /\ [][NextFind]_vars

\* Construction alone, with every argument combination
NextSetup == AddNodeStep \/ AddChannelStep

SpecSetup == Init /\ [][NextSetup]_vars

(***************************************************************************)
(* simulate(concurrent=True): one thread per queued transaction            *)
(***************************************************************************)
\* Each thread runs process_tx on the shared Network.  Nothing is locked: a
\* step of a thread is one read or one write of a shared attribute
\* (self.balance_a -= amount is a read followed by a write), and the steps
\* of the threads interleave in any order.  find_path only reads and is one
\* step; a thread started later can equally be scheduled later, so the
\* threads are started together.

\* <<capacity, balance_a, balance_b, base_fee, fee_rate>> of the channels of
\* a concurrent run
ConcParams == {<<4, 2, 2, 0, <<0, 1>>>>, <<4, 3, 1, 1, <<1, 2>>>>}

\* <<from, to, amount>> queued for a concurrent run
ConcInputs == {<<1, 2, 2>>, <<1, 2, 1>>, <<1, 3, 1>>, <<1, 2, -4>>}

\* a thread about to call execute_payment; value is the attribute value its
\* last read returned, searched_before records that find_path ran on the
\* channels as they were when the run started
NewThread(tx) ==
    [tx |-> tx, pc |-> "find", path |-> <<>>, total_cost |-> 0, i |-> 0,
     current_amount |-> 0, fee |-> 0, forward_amount |-> 0, value |-> 0,
     ret |-> <<FALSE, 0>>, searched_before |-> FALSE]

hop_sender(th) == th.path[th.i - 1]

hop_channel(th) == ChannelId(th.path[th.i - 1], th.path[th.i])

\* the balance attribute update_balances debits for the hop's sender
debit_side(th) ==
    IF hop_sender(th) = channels[hop_channel(th)].node_a THEN "balance_a" ELSE "balance_b"

\* the balance attribute update_balances credits
credit_side(th) ==
    IF hop_sender(th) = channels[hop_channel(th)].node_a THEN "balance_b" ELSE "balance_a"

\* the credit dropped
credited_lost(value, amount) == value

\* self.balance_b += amount, from the value read
credited(value, amount) == value + amount

\* self.balance_a -= amount, from the value read
debited(value, amount) == value - amount

\* The head of the hop loop for hop i: leave the loop when no hop is left,
\* otherwise compute the hop's fee and forward_amount (base_fee and fee_rate
\* are never written) and go on to update_balances.
begin_hop(th, i, current_amount) ==
    IF i < 2
    THEN [th EXCEPT !.pc = "log", !.ret = <<TRUE, th.total_cost - th.tx[3]>>]
    ELSE LET channel_id == ChannelId(th.path[i - 1], th.path[i])
         IN  IF channel_id \notin DOMAIN channels
             THEN [th EXCEPT !.pc = "log", !.ret = <<FALSE, 0>>]
             ELSE LET fee == calculate_fee(channels[channel_id], current_amount)
                  IN  [th EXCEPT !.pc = "check", !.i = i,
                                 !.current_amount = current_amount, !.fee = fee,
                                 !.forward_amount = current_amount + fee]

\* execute_payment after find_path returned r
after_find(th, r) ==
    IF "error" \in DOMAIN r THEN [th EXCEPT !.pc = "raised"]
    ELSE IF DOMAIN r = {} THEN [th EXCEPT !.pc = "log", !.ret = <<FALSE, 0>>]
    ELSE begin_hop([th EXCEPT !.path = r.path, !.total_cost = r.total_cost,
                              !.searched_before = (channels = run.before)],
                   Len(r.path), th.tx[3])

\* the thread has called find_path and has not finished process_tx
InFlight(th) == th.pc \notin {"find", "done", "raised"}

\* thread t moves to th; overlapped records that two threads were in
\* flight at once
Moved(t, th) ==
    [run EXCEPT !.threads[t] = th,
                !.overlapped = @ \/ (\E u \in DOMAIN run.threads :
                                        u # t /\ InFlight(th) /\ InFlight(run.threads[u]))]

At(t, pc) == run.pc = "running" /\ run.threads[t].pc = pc

\* simulate(concurrent=True) up to the joins: log.clear(), one started
\* thread per queued transaction
StartThreads ==
    /\ run.pc = "idle"
    /\ log' = <<>>
    /\ run' = [pc |-> "running",
               threads |-> [i \in 1..Len(transaction_queue) |->
                               NewThread(transaction_queue[i])],
               before |-> channels, overlapped |-> FALSE]
    /\ last' = [op |-> "start_threads", queue |-> transaction_queue]
    /\ UNCHANGED <<nodes, node_channels, channels, transaction_queue, forwarded, calls, ran>>

\* process_tx calls execute_payment, which calls find_path
ThreadFind(t) ==
    /\ At(t, "find")
    /\ \E r \in {find_path(channels, run.threads[t].tx[1], run.threads[t].tx[2],
                           run.threads[t].tx[3])} :
           run' = Moved(t, after_find(run.threads[t], r))
    /\ calls' = calls + 1
    /\ UNCHANGED <<nodes, node_channels, channels, transaction_queue, log, last, forwarded, ran>>

\* update_balances: if self.balance_a < amount: return
ThreadCheck(t) ==
    /\ At(t, "check")
    /\ LET th == run.threads[t]
       IN  run' = Moved(t, [th EXCEPT !.pc =
                                IF channels[hop_channel(th)][debit_side(th)] < th.forward_amount
                                THEN "read_fee" ELSE "read_debit"])
    /\ UNCHANGED <<nodes, node_channels, channels, transaction_queue, log, last, forwarded,
                   calls, ran>>

\* self.balance_a -= amount: the read
ThreadReadDebit(t) ==
    /\ At(t, "read_debit")
    /\ LET th == run.threads[t]
       IN  run' = Moved(t, [th EXCEPT !.pc = "write_debit",
                                      !.value = channels[hop_channel(th)][debit_side(th)]])
    /\ UNCHANGED <<nodes, node_channels, channels, transaction_queue, log, last, forwarded,
                   calls, ran>>

\* self.balance_a -= amount: the write
ThreadWriteDebit(t) ==
    /\ At(t, "write_debit")
    /\ LET th == run.threads[t]
       IN  /\ channels' = [channels EXCEPT ![hop_channel(th)][debit_side(th)] =
                              debited(th.value, th.forward_amount)]
           /\ run' = Moved(t, [th EXCEPT !.pc = "read_credit", !.value = 0])
    /\ UNCHANGED <<nodes, node_channels, transaction_queue, log, last, forwarded, calls, ran>>

\* self.balance_b += amount: the read
ThreadReadCredit(t) ==
    /\ At(t, "read_credit")
    /\ LET th == run.threads[t]
       IN  run' = Moved(t, [th EXCEPT !.pc = "write_credit",
                                      !.value = channels[hop_channel(th)][credit_side(th)]])
    /\ UNCHANGED <<nodes, node_channels, channels, transaction_queue, log, last, forwarded,
                   calls, ran>>

\* self.balance_b += amount: the write
ThreadWriteCredit(t) ==
    /\ At(t, "write_credit")
    /\ LET th == run.threads[t]
       IN  /\ channels' = [channels EXCEPT ![hop_channel(th)][credit_side(th)] =
                              credited(th.value, th.forward_amount)]
           /\ run' = Moved(t, [th EXCEPT !.pc = "read_fee", !.value = 0])
    /\ UNCHANGED <<nodes, node_channels, transaction_queue, log, last, forwarded, calls, ran>>

\* channel.fee_earned += fee: the read
ThreadReadFee(t) ==
    /\ At(t, "read_fee")
    /\ LET th == run.threads[t]
       IN  run' = Moved(t, [th EXCEPT !.pc = "write_fee",
                                      !.value = channels[hop_channel(th)].fee_earned])
    /\ UNCHANGED <<nodes, node_channels, channels, transaction_queue, log, last, forwarded,
                   calls, ran>>

\* channel.fee_earned += fee: the write; then current_amount = forward_amount
\* and the next hop
ThreadWriteFee(t) ==
    /\ At(t, "write_fee")
    /\ LET th == run.threads[t]
       IN  /\ channels' = [channels EXCEPT ![hop_channel(th)].fee_earned = th.value + th.fee]
           /\ run' = Moved(t, begin_hop([th EXCEPT !.value = 0], th.i - 1, th.forward_amount))
    /\ UNCHANGED <<nodes, node_channels, transaction_queue, log, last, forwarded, calls, ran>>

\* process_tx: self.log.append(result)
ThreadLog(t) ==
    /\ At(t, "log")
    /\ LET th == run.threads[t]
       IN  /\ log' = Append(log, IF th.ret[1]
                                 THEN SuccessLine(th.tx[1], th.tx[2], th.tx[3], th.ret[2])
                                 ELSE FailedLine(th.tx[1], th.tx[2], th.tx[3]))
           /\ run' = Moved(t, [th EXCEPT !.pc = "done"])
    /\ UNCHANGED <<nodes, node_channels, channels, transaction_queue, last, forwarded, calls, ran>>

\* simulate(concurrent=True) from the joins on: every thread has ended (by
\* returning or by an exception), the queue is cleared and the log returned
Join ==
    /\ run.pc = "running"
    /\ \A t \in DOMAIN run.threads : run.threads[t].pc \in {"done", "raised"}
    /\ transaction_queue' = <<>>
    /\ last' = [op |-> "simulate_concurrent", queue |-> transaction_queue,
                before |-> run.before, threads |-> run.threads,
                overlapped |-> run.overlapped, ran |-> ran, ret |-> log]
    /\ run' = Idle
    /\ ran' = <<>>
    /\ UNCHANGED <<nodes, node_channels, channels, log, forwarded, calls>>

\* the channels of a line 1 - 2 - 3, opened as createLNetwork opens them:
\* add_channel(str(i), str(j)) with j > i
ConcChannelStep ==
    \E ab \in {<<1, 2>>, <<2, 3>>} : \E p \in ConcParams : AddChannel(ab[1], ab[2], p)

\* one manager is filled and run once (simulation_single.py creates a
\* manager per run)
ConcAddTransactionStep ==
    \E tx \in ConcInputs :
        calls = 0 /\ run.pc = "idle" /\ AddTransaction(tx[1], tx[2], tx[3])

ThreadFindStep == \E t \in DOMAIN run.threads : ThreadFind(t)

ThreadCheckStep == \E t \in DOMAIN run.threads : ThreadCheck(t)

ThreadReadDebitStep == \E t \in DOMAIN run.threads : ThreadReadDebit(t)

ThreadWriteDebitStep == \E t \in DOMAIN run.threads : ThreadWriteDebit(t)

ThreadReadCreditStep == \E t \in DOMAIN run.threads : ThreadReadCredit(t)

ThreadWriteCreditStep == \E t \in DOMAIN run.threads : ThreadWriteCredit(t)

ThreadReadFeeStep == \E t \in DOMAIN run.threads : ThreadReadFee(t)

ThreadWriteFeeStep == \E t \in DOMAIN run.threads : ThreadWriteFee(t)

ThreadLogStep == \E t \in DOMAIN run.threads : ThreadLog(t)

\* Queued transactions run by the concurrent simulate
NextConc ==
    \/ AddNodeStep
    \/ ConcChannelStep
    \/ ConcAddTransactionStep
    \/ StartThreads
    \/ ThreadFindStep
    \/ ThreadCheckStep
    \/ ThreadReadDebitStep
    \/ ThreadWriteDebitStep
    \/ ThreadReadCreditStep
    \/ ThreadWriteCreditStep
    \/ ThreadReadFeeStep
    \/ ThreadWriteFeeStep
    \/ ThreadLogStep
    \/ Join

SpecConc == Init /\ [][NextConc]_vars

(***************************************************************************)
(* One manager run again and again, in either mode                         *)
(***************************************************************************)
\* <<from, to, amount>> queued on a manager that is run more than once; the
\* search for the last one leaves find_path by OverflowError where the
\* channel 1 - 2 has base fee 1
RunInputs == {<<2, 3, 1>>, <<3, 2, 2>>, <<1, 2, -4>>}

\* add_transaction between two simulate calls
RunAddTransactionStep ==
    \E tx \in RunInputs : run.pc = "idle" /\ AddTransaction(tx[1], tx[2], tx[3])

\* add_transaction and simulate(concurrent=False or True), in any order and
\* any number of times, on a line network
NextRuns ==
    \/ AddNodeStep
    \/ ConcChannelStep
    \/ RunAddTransactionStep
    \/ SimulateStep
    \/ StartThreads
    \/ ThreadFindStep
    \/ ThreadCheckStep
    \/ ThreadReadDebitStep
    \/ ThreadWriteDebitStep
    \/ ThreadReadCreditStep
    \/ ThreadWriteCreditStep
    \/ ThreadReadFeeStep
    \/ ThreadWriteFeeStep
    \/ ThreadLogStep
    \/ Join

SpecRuns == Init /\ [][NextRuns]_vars

(***************************************************************************)
(* Properties                                                              *)
(***************************************************************************)
\* C1: after any sequence of execute_payment calls every channel has
\* balance_a + balance_b = capacity.
C1_BalancesSumToCapacity ==
    \A c \in DOMAIN channels :
        channels[c].balance_a + channels[c].balance_b = channels[c].capacity

\* a successful payment has moved a non-zero amount over a channel
C1_Witness ==
    /\ last.op = "execute_payment"
    /\ last.ret[1]
    /\ \E i \in 1..Len(last.hops) : last.hops[i].moved /\ last.hops[i].amount # 0

\* C2: after a sequential simulate of any queued transactions (any integer
\* amount) every channel has balance_a >= 0 and balance_b >= 0.
C2_BalancesNonNegative ==
    last.op = "simulate" =>
        \A c \in DOMAIN channels : channels[c].balance_a >= 0 /\ channels[c].balance_b >= 0

\* C3: fee_earned of a channel is the sum of the fees of the forwards that
\* update_balances actually applied on it.
C3_FeeEarnedIsForwardedFees ==
    \A c \in DOMAIN channels : channels[c].fee_earned = forwarded[c]

\* C4: an execute_payment that returns (False, 0) leaves every channel's
\* balances and fee_earned as they were before the call.
C4_FailedPaymentChangesNothing ==
    [][(last'.op = "execute_payment" /\ last'.ret = <<FALSE, 0>>) => channels' = channels]_vars

\* a payment over an existing direct channel failed, after an earlier payment
C4_Witness ==
    /\ last.op = "execute_payment"
    /\ last.ret = <<FALSE, 0>>
    /\ ChannelId(last.args[1], last.args[2]) \in DOMAIN channels
    /\ calls = 2

ScenarioBefore ==
    (<<1, 2>> :> Channel(1, 2, 1000, 500, 500, 0, <<0, 1>>))
        @@ (<<2, 3>> :> Channel(2, 3, 1000, 500, 500, 10, <<1, 100>>))

ScenarioAfter ==
    (<<1, 2>> :> [Channel(1, 2, 1000, 389, 611, 0, <<0, 1>>) EXCEPT !.fee_earned = 0])
        @@ (<<2, 3>> :> [Channel(2, 3, 1000, 389, 611, 10, <<1, 100>>) EXCEPT !.fee_earned = 11])

\* C5: on the scenario network, execute_payment(A, C, 100) finds the path
\* [A, B, C] with total_cost 111, returns (True, 11) and leaves A-B at
\* (389, 611) with fee_earned 0 and B-C at (389, 611) with fee_earned 11.
C5_EndToEndScenario ==
    [][(/\ nodes = {1, 2, 3}
        /\ channels = ScenarioBefore
        /\ last'.op = "execute_payment"
        /\ last'.args = <<1, 3, 100>>)
       => (/\ DOMAIN last'.path_info # {}
           /\ last'.path_info.path = <<1, 2, 3>>
           /\ last'.path_info.total_cost = 111
           /\ last'.ret = <<TRUE, 11>>
           /\ channels' = ScenarioAfter)]_vars

\* the scenario payment has run on the scenario network
C5_Witness ==
    /\ last.op = "execute_payment"
    /\ last.args = <<1, 3, 100>>
    /\ calls = 1
    /\ channels = ScenarioAfter

\* C6: a path returned by find_path starts at the sender, ends at the
\* receiver, and every consecutive pair of its nodes is joined by a channel.
C6_PathJoinsSenderToReceiver ==
    (last.op = "execute_payment" /\ DOMAIN last.path_info # {}) =>
        LET path == last.path_info.path
        IN  /\ Len(path) >= 1
            /\ path[1] = last.args[1]
            /\ path[Len(path)] = last.args[2]
            /\ \A i \in 1..(Len(path) - 1) :
                   /\ ChannelId(path[i], path[i + 1]) \in DOMAIN channels
                   /\ {channels[ChannelId(path[i], path[i + 1])].node_a,
                       channels[ChannelId(path[i], path[i + 1])].node_b}
                          = {path[i], path[i + 1]}
                   /\ path[i + 1] \in Keys(node_channels[path[i]])

\* a two-hop path was returned
C6_Witness ==
    /\ last.op = "execute_payment"
    /\ DOMAIN last.path_info # {}
    /\ Len(last.path_info.path) = 3

\* C7: with an absent sender or receiver, or with sender = receiver,
\* find_path returns not-found and execute_payment returns (False, 0).
C7_DegenerateRequestsFail ==
    (/\ last.op = "execute_payment"
     /\ \/ last.args[1] \notin nodes
        \/ last.args[2] \notin nodes
        \/ last.args[1] = last.args[2])
    => (DOMAIN last.path_info = {} /\ last.ret = <<FALSE, 0>>)

Rejected(args) ==
    \/ args[1] \notin nodes
    \/ args[2] \notin nodes
    \/ ChannelId(args[1], args[2]) \in DOMAIN channels
    \/ args[3][2] + args[3][3] # args[3][1]

\* C9: add_node with an existing id, and add_channel with a missing endpoint,
\* an existing channel between the two nodes (either argument order) or
\* balance_a + balance_b # capacity, raise and leave the nodes, the channels
\* and every adjacency as they were.
C9_RejectedConstructionChangesNothing ==
    [][/\ (last'.op = "add_node" /\ last'.args[1] \in nodes)
            => (last'.error # "" /\ UNCHANGED <<nodes, channels, node_channels>>)
       /\ (last'.op = "add_channel" /\ Rejected(last'.args))
            => (last'.error # "" /\ UNCHANGED <<nodes, channels, node_channels>>)]_vars

\* add_channel was rejected for a channel that exists with the endpoints in
\* the other argument order
C9_Witness ==
    /\ last.op = "add_channel"
    /\ last.error = "Channel already exists between these nodes"
    /\ last.args[1] # last.args[2]
    /\ channels[ChannelId(last.args[1], last.args[2])].node_a = last.args[2]

\* C10: every channel of the network has two distinct endpoints that are
\* nodes of the network, and a channel is in the channel collection exactly
\* when it is registered in the adjacency of both of its endpoints.
C10_ChannelsJoinDistinctNodes ==
    /\ \A c \in DOMAIN channels :
           /\ channels[c].node_a # channels[c].node_b
           /\ channels[c].node_a \in nodes
           /\ channels[c].node_b \in nodes
           /\ [other |-> channels[c].node_b, channel |-> c]
                  \in {node_channels[channels[c].node_a][i] :
                          i \in 1..Len(node_channels[channels[c].node_a])}
           /\ [other |-> channels[c].node_a, channel |-> c]
                  \in {node_channels[channels[c].node_b][i] :
                          i \in 1..Len(node_channels[channels[c].node_b])}
    /\ \A n \in nodes : \A i \in 1..Len(node_channels[n]) :
           node_channels[n][i].channel \in DOMAIN channels

\* C13: in sequential use, with non-negative fee parameters and a positive
\* amount, every hop of a path returned by find_path has a sending side that
\* holds the amount execute_payment forwards over it, so update_balances
\* moves value on every hop of the payment.
C13_EveryHopCanForward ==
    (/\ last.op = "execute_payment"
     /\ last.args[3] > 0
     /\ DOMAIN last.path_info # {})
    => \A i \in 1..Len(last.hops) : last.hops[i].moved

\* the sequences of distinct nodes that start at from_id and end at to_id
SimplePaths(from_id, to_id) ==
    {p \in UNION {[1..n -> nodes] : n \in 1..Cardinality(nodes)} :
        /\ p[1] = from_id
        /\ p[Len(p)] = to_id
        /\ \A i, j \in 1..Len(p) : i # j => p[i] # p[j]}

\* The amount the node p[1] must send for `cur` to arrive at p[i], fees
\* accumulated backward hop by hop; feasible is FALSE when a channel is
\* missing or a hop's sending side fails can_forward for the amount arriving
\* downstream of it.
RECURSIVE PathCost(_, _, _, _)
PathCost(chans, p, i, cur) ==
    IF i < 2 THEN [feasible |-> TRUE, cost |-> cur]
    ELSE LET channel_id == ChannelId(p[i - 1], p[i])
         IN  IF channel_id \notin DOMAIN chans
             THEN [feasible |-> FALSE, cost |-> 0]
             ELSE IF ~can_forward(chans[channel_id], p[i - 1], cur)
             THEN [feasible |-> FALSE, cost |-> 0]
             ELSE PathCost(chans, p, i - 1, cur + calculate_fee(chans[channel_id], cur))

FeasibleCosts(chans, from_id, to_id, amount) ==
    {PathCost(chans, p, Len(p), amount).cost :
        p \in {q \in SimplePaths(from_id, to_id) : PathCost(chans, q, Len(q), amount).feasible}}

\* C14: with non-negative base fees and fee rates, find_path returns
\* not-found exactly when no path from sender to receiver has every hop's
\* sending side passing can_forward for the amount arriving downstream, and
\* otherwise total_cost is the least, over those paths, of the amount plus
\* the fees accumulated backward from the receiver.
C14_TotalCostIsMinimum ==
    [][last'.op = "execute_payment" =>
          \E costs \in {FeasibleCosts(channels, last'.args[1], last'.args[2], last'.args[3])} :
              IF costs = {}
              THEN DOMAIN last'.path_info = {}
              ELSE /\ DOMAIN last'.path_info # {}
                   /\ last'.path_info.total_cost \in costs
                   /\ \A c \in costs : last'.path_info.total_cost <= c]_vars

\* a two-hop path without fees was returned although the direct channel,
\* which charges a fee, could forward the amount
C14_Witness ==
    /\ last.op = "execute_payment"
    /\ DOMAIN last.path_info # {}
    /\ Len(last.path_info.path) = 3
    /\ last.path_info.total_cost = last.args[3]
    /\ ChannelId(last.args[1], last.args[2]) \in DOMAIN channels
    /\ channels[ChannelId(last.args[1], last.args[2])].base_fee > 0
    /\ can_forward(channels[ChannelId(last.args[1], last.args[2])], last.args[1], last.args[3])

\* the sum of the fees of hops i.. that ran on channel c
RECURSIVE FeesOn(_, _, _)
FeesOn(hops, c, i) ==
    IF i > Len(hops) THEN 0
    ELSE (IF hops[i].channel = c THEN hops[i].fee ELSE 0) + FeesOn(hops, c, i + 1)

RECURSIVE SumFees(_, _)
SumFees(hops, i) ==
    IF i > Len(hops) THEN 0 ELSE hops[i].fee + SumFees(hops, i + 1)

\* C15: for every successful execute_payment, total_fees is total_cost
\* minus amount and equals the sum of the fees execution recomputes per hop;
\* those fees are what fee_earned of each channel grows by, and the
\* forward_amount of the first hop (the sender's) is total_cost.
C15_FeesAgreeWithSearch ==
    [][(last'.op = "execute_payment" /\ last'.ret[1]) =>
          /\ last'.ret[2] = last'.path_info.total_cost - last'.args[3]
          /\ last'.ret[2] = SumFees(last'.hops, 1)
          /\ Len(last'.hops) = Len(last'.path_info.path) - 1
          /\ \A c \in DOMAIN channels :
                 channels'[c].fee_earned = channels[c].fee_earned + FeesOn(last'.hops, c, 1)
          /\ Len(last'.hops) > 0 =>
                 /\ last'.hops[Len(last'.hops)].sender = last'.args[1]
                 /\ last'.hops[Len(last'.hops)].amount = last'.path_info.total_cost]_vars

\* a successful payment over two hops that both charged a fee
C15_Witness ==
    /\ last.op = "execute_payment"
    /\ last.ret[1]
    /\ Len(last.hops) = 2
    /\ last.hops[1].fee > 0
    /\ last.hops[2].fee > last.hops[1].fee

\* the balance `node` holds on `channel`
balance_of(channel, node) ==
    IF node = channel.node_a THEN channel.balance_a ELSE channel.balance_b

\* the channel of the hop that reaches the receiver
last_hop_channel(path) == ChannelId(path[Len(path) - 1], path[Len(path)])

\* C16: after a successful execute_payment over at least one hop, the
\* receiver's balance on the last-hop channel has grown by exactly amount
\* (stated for the payments on which update_balances moved value on every
\* hop).
C16_ReceiverGetsAmount ==
    [][(/\ last'.op = "execute_payment"
        /\ last'.ret[1]
        /\ Len(last'.path_info.path) >= 2
        /\ \A i \in 1..Len(last'.hops) : last'.hops[i].moved)
       => \E c \in {last_hop_channel(last'.path_info.path)} :
              balance_of(channels'[c], last'.args[2])
                  = balance_of(channels[c], last'.args[2]) + last'.args[3]]_vars

\* C16 (amended): after a successful execute_payment over at least one hop,
\* the receiver's balance on the last-hop channel has grown by amount plus
\* that channel's fee on amount when the hop's sending side held that sum,
\* and is unchanged when it did not.
C16_ReceiverGetsAmountPlusLastFee ==
    [][(/\ last'.op = "execute_payment"
        /\ last'.ret[1]
        /\ Len(last'.path_info.path) >= 2)
       => \E c \in {last_hop_channel(last'.path_info.path)} :
          \E sender_id \in {last'.path_info.path[Len(last'.path_info.path) - 1]} :
          \E forward_amount \in {last'.args[3] + calculate_fee(channels[c], last'.args[3])} :
              balance_of(channels'[c], last'.args[2])
                  = balance_of(channels[c], last'.args[2])
                    + (IF can_forward(channels[c], sender_id, forward_amount)
                       THEN forward_amount ELSE 0)]_vars

\* a successful payment whose last hop charged a fee and moved value
C16_Witness ==
    /\ last.op = "execute_payment"
    /\ last.ret[1]
    /\ Len(last.hops) >= 1
    /\ last.hops[1].fee > 0
    /\ last.hops[1].moved
    /\ last.hops[1].amount = last.args[3] + last.hops[1].fee

\* the channels of the hops of a find_path result
PathChannels(path_info) ==
    IF DOMAIN path_info = {} THEN {}
    ELSE {ChannelId(path_info.path[i], path_info.path[i + 1]) :
             i \in 1..(Len(path_info.path) - 1)}

\* the fields of a channel that no payment writes
Static(channel) ==
    <<channel.node_a, channel.node_b, channel.capacity, channel.base_fee, channel.fee_rate>>

\* nodes, channel collection, adjacency and static fields are unchanged, and
\* so is every channel outside `touched`
FrameHolds(touched) ==
    /\ UNCHANGED <<nodes, node_channels>>
    /\ DOMAIN channels' = DOMAIN channels
    /\ \A c \in DOMAIN channels :
           /\ Static(channels'[c]) = Static(channels[c])
           /\ c \notin touched => channels'[c] = channels[c]

\* C20: execute_payment and simulate change only balance_a, balance_b and
\* fee_earned of channels on the path find_path returned for a payment they
\* ran; the nodes, the channel collection, every adjacency, every channel's
\* endpoints, capacity, base_fee and fee_rate, and every other channel are
\* unchanged.
C20_OnlyPathChannelsChange ==
    [][/\ last'.op = "execute_payment" => FrameHolds(PathChannels(last'.path_info))
       /\ last'.op = "simulate" =>
              FrameHolds(UNION {PathChannels(last'.path_infos[i]) :
                                   i \in 1..Len(last'.path_infos)})]_vars

\* a run of two payments has changed one channel and left another one, which
\* is on neither path, with the balances and fee_earned it was created with
C20_Witness ==
    /\ last.op = "simulate"
    /\ Len(last.path_infos) = 2
    /\ \E c, d \in DOMAIN channels :
           /\ c \in UNION {PathChannels(last.path_infos[i]) : i \in 1..2}
           /\ d \notin UNION {PathChannels(last.path_infos[i]) : i \in 1..2}
           /\ channels[c].fee_earned > 0
           /\ channels[d].fee_earned = 0
           /\ channels[d].base_fee > 0

\* C19: on a network with non-negative fee parameters every find_path call
\* ends with the priority-queue loop emptied, not with an exception, and a
\* returned path follows the predecessor links from the sender to the
\* receiver without visiting a node twice.
C19_FindPathTerminates ==
    last.op = "find_path" =>
        /\ "error" \notin DOMAIN last.ret
        /\ DOMAIN last.ret # {} =>
               /\ last.ret.path[1] = last.args[1]
               /\ last.ret.path[Len(last.ret.path)] = last.args[2]
               /\ \A i, j \in 1..Len(last.ret.path) :
                      i # j => last.ret.path[i] # last.ret.path[j]

\* C11: once simulate(concurrent=True) has returned, every channel has
\* balance_a + balance_b = capacity, whatever the interleaving of the
\* threads was (stated for the runs whose amounts are all positive).
C11_ConcurrentSumIsCapacity ==
    (/\ last.op = "simulate_concurrent"
     /\ \A i \in 1..Len(last.queue) : last.queue[i][3] > 0) =>
        \A c \in DOMAIN channels :
            channels[c].balance_a + channels[c].balance_b = channels[c].capacity

\* C17: with positive amounts queued, every channel has balance_a >= 0 and
\* balance_b >= 0 at every point during and after simulate(concurrent=True).
C17_ConcurrentBalancesNonNegative ==
    (/\ last.op \in {"start_threads", "simulate_concurrent"}
     /\ \A i \in 1..Len(last.queue) : last.queue[i][3] > 0)
    => \A c \in DOMAIN channels : channels[c].balance_a >= 0 /\ channels[c].balance_b >= 0

\* C12: when simulate(concurrent=True) returns, the log holds one result
\* line per transaction that was queued and the queue is empty.
C12_ConcurrentRunLogsEveryTransaction ==
    last.op = "simulate_concurrent" =>
        /\ Len(log) = Len(last.queue)
        /\ \A t \in DOMAIN last.threads : last.threads[t].pc = "done"
        /\ transaction_queue = <<>>

\* the orders in which n queued transactions can be run
Perms(n) == {p \in [1..n -> 1..n] : \A i, j \in 1..n : i # j => p[i] # p[j]}

\* the channels the sequential simulate leaves, for every order of the queue
SequentialOutcomes(before, queue) ==
    {run_queue([channels |-> before, log |-> <<>>, rets |-> <<>>, path_infos |-> <<>>,
                forwarded |-> [c \in DOMAIN before |-> 0], calls |-> 0,
                raised |-> FALSE],
               [i \in 1..Len(queue) |-> queue[p[i]]], 1).channels :
        p \in Perms(Len(queue))}

\* the channels of the hops of a thread's path
ThreadChannels(th) ==
    {ChannelId(th.path[i], th.path[i + 1]) : i \in 1..(Len(th.path) - 1)}

\* C18: simulate(concurrent=True) can end with both payments logged as
\* Success and with balances and fee_earned that no sequential order of the
\* queue produces, and only the overlap of the threads brings this about: a
\* run in which no two threads were in flight at once, and none raised, ends
\* with channels that some sequential order of the queue produces.
C18_OnlyOverlapLeavesSequentialOutcomes ==
    (/\ last.op = "simulate_concurrent"
     /\ ~last.overlapped
     /\ \A t \in DOMAIN last.threads : last.threads[t].pc = "done")
    => channels \in SequentialOutcomes(last.before, last.queue)

\* two payments with positive amounts whose paths share a channel both ran
\* find_path on the channels as they were before the run, both were logged
\* as Success, and the shared channel ended with balances and with a
\* fee_earned that no sequential order of the two produces
C18_Witness ==
    /\ last.op = "simulate_concurrent"
    /\ Len(last.queue) = 2
    /\ \A t \in 1..2 : /\ last.threads[t].tx[3] > 0
                       /\ last.threads[t].searched_before
                       /\ last.threads[t].pc = "done"
    /\ Len(log) = 2
    /\ log[1][1] = "Success"
    /\ log[2][1] = "Success"
    /\ \E c \in ThreadChannels(last.threads[1]) \cap ThreadChannels(last.threads[2]) :
       \E seq \in {SequentialOutcomes(last.before, last.queue)} :
           /\ \A o \in seq : <<channels[c].balance_a, channels[c].balance_b>>
                                 # <<o[c].balance_a, o[c].balance_b>>
           /\ \A o \in seq : channels[c].fee_earned # o[c].fee_earned

\* C21: on a manager that is run again and again, every simulate call
\* starts from a cleared log and has emptied the queue when it returns, so
\* that the log after a run holds one line per transaction the run
\* processed and only for transactions queued since the previous simulate
\* call, no transaction is processed by two simulate calls, and a simulate
\* call on an empty queue returns an empty log and leaves every channel as
\* it was.
C21_RunsShareNoTransaction ==
    /\ last.op = "simulate" =>
           /\ ~last.raised => transaction_queue = <<>>
           /\ Len(log) = Len(last.rets)
           /\ \A i \in 1..Len(last.rets) : last.ran[i] = <<0, 0>>
           /\ last.queue = <<>> => (last.ret = <<>> /\ channels = last.before)
    /\ last.op = "simulate_concurrent" =>
           /\ transaction_queue = <<>>
           /\ Len(log) = Cardinality({t \in DOMAIN last.threads :
                                           last.threads[t].pc = "done"})
           /\ \A t \in DOMAIN last.threads : last.ran[t] = <<0, 0>>
           /\ last.queue = <<>> => (last.ret = <<>> /\ channels = last.before)

====
